---- MODULE Spec2Model ----
(***************************************************************************)
(* Model of the multi-backend coordination layer of docman:                *)
(* DatabaseManager (src/api/services/database_manager.py) on top of the    *)
(* three adapters MinioDB, QdrantChunksDB and PostgresDB (src/db).         *)
(*                                                                         *)
(* The coordinator state is the initialization flag and the three adapter  *)
(* handles.  The backends are the environment: each service is up or down, *)
(* and holds the set of document ids it stores.  Every coordinator method  *)
(* is one action; the record `last` keeps what the last call did (adapter  *)
(* calls made, what each returned, what was raised, what was returned).    *)
(***************************************************************************)
EXTENDS Integers, FiniteSets, Sequences, TLC

\* ---------------------------------------------------------------- bounds
MaxDocs == 1
MaxPoints == 2      \* point ids per collection
MaxBatch == 2       \* items in one chunk batch / rows in one insert
MaxPage == 1        \* page numbers 0..MaxPage
MaxSessions == 2    \* session ids
MaxTime == 4        \* the clock and every expires_at stay within 0..MaxTime
MaxHours == 2       \* expires_in_hours / extend_hours range over 1..MaxHours
MaxRowIds == 3      \* document ids offered to a multi-row insert

Docs == 1..MaxDocs

Backends == {"minio", "qdrant", "postgres"}

\* An adapter handle of the coordinator: the attribute is None ("none"), an
\* adapter object holding a client/connection ("live"), or an adapter object
\* whose connect failed, i.e. whose _client/_connection is None ("dead").
\* "stale": a PostgresDB whose _connection the server has dropped; the
\* object is still there, its next statement raises.  (The MinIO and Qdrant
\* clients hold no session with their service.)
Handles == {"none", "live", "dead", "stale"}

\* Which adapter call of an operation raises at the coordinator boundary.
\* The coordinator wraps every adapter sequence in try/except Exception; the
\* adapters report most failures in the dict they return, and raise when an
\* except clause of their own fails (PostgresDB: rollback() on a broken
\* connection) or when the adapter object is one whose method raises.
Faults == {"none"} \cup Backends

VARIABLES
    initialized,    \* DatabaseManager._initialized
    client,         \* [Backends -> Handles]: minio_client, qdrant_client, postgres_client
    up,             \* [Backends -> BOOLEAN]: the external service answers
    blobs,          \* document ids stored in the MinIO bucket
    chunks,         \* document ids that own chunks in the Qdrant collection
    rows,           \* document ids that have a row in PostgreSQL `documents`
    last,           \* record of the last coordinator call
    pointStore,     \* the Qdrant points: [collection, id] -> payload, or NoPoint
    sessions,       \* the session rows: session_id -> row, or NoSession
    now,            \* the wall clock, in hours
    tasks           \* the requests in flight: handler -> its position and locals

vars == <<initialized, client, up, blobs, chunks, rows, last, pointStore, sessions, now, tasks>>

\* The detailed contents of the vector store and of the session table, and
\* the clock.  Spec abstracts the vector store to `chunks` and leaves these
\* alone; ChunkSpec and SessionSpec below work on them.
stores == <<pointStore, sessions, now, tasks>>

\* ------------------------------------------------- vector store contents

\* config.qdrant.default_collection_name, also the adapter's own default
\* for collection_name; OtherCollection stands for any other name a caller
\* passes to create_chunks (a session's temp_collection_name).
DefaultCollectionName == "document_chunks"
OtherCollection == "session_temp"
Collections == {DefaultCollectionName, OtherCollection}

PointIds == 1..MaxPoints
Pages == 0..MaxPage

\* The payload of a stored point, cut down to two of the four filterable
\* fields: document_id (filtered when truthy, as user_id and session_id are)
\* and page (filtered when not None).  document_id = 0: no point.
Payload(document_id, page) == [document_id |-> document_id, page |-> page]
NoPoint == Payload(0, 0)

NoPoints == [c \in Collections |-> [i \in PointIds |-> NoPoint]]

\* ------------------------------------------------------ session table

SessionIds == 1..MaxSessions
Times == 0..MaxTime
Hours == 1..MaxHours

\* A row of the sessions table; status "" : no row.
SessionRow(status, expires_at) == [status |-> status, expires_at |-> expires_at]
NoSession == SessionRow("", 0)
NoSessions == [s \in SessionIds |-> NoSession]

\* ------------------------------------------------------------ exceptions

\* DocumentManagementException.message as built by
\* DatabaseConnectionException.__init__: f"Failed to connect to {database_type} database"
Message(database_type) == <<"Failed to connect to", database_type, "database">>

\* DatabaseConnectionException(database_type, details): error_code is fixed,
\* details carries the "error"/"reason" text the raiser put in.
DatabaseConnectionException(database_type, detail) ==
    [message |-> Message(database_type), error_code |-> "DATABASE_CONNECTION_ERROR",
     detail |-> detail]

\* str(e) of a DocumentManagementException is its message (super().__init__(message)).
Str(e) == e.message

NoError == [message |-> <<>>, error_code |-> "", detail |-> <<>>]

\* The name each _init_* uses for its backend in the exception it raises.
DatabaseType == [minio |-> "MinIO", qdrant |-> "Qdrant", postgres |-> "PostgreSQL"]

\* --------------------------------------------------------- call record

NotCalled == [b \in Backends |-> "not_called"]
Absent    == [b \in Backends |-> "absent"]

\* op: method name; doc: its document id (0 when none); ready: _initialized
\* when the call started; raised: "none" or the kind of exception that left
\* the method; status: the "status" of the returned dict ("" if none);
\* out: per adapter, what its call did at the coordinator boundary
\* ("not_called", "ok", "failed" = returned a failure, "raised");
\* results: the per-backend map the method returned ("absent" = no entry);
\* failed: the backend whose connection made initialize fail;
\* error: the exception initialize raised; health: what is_healthy returned;
\* reconnected: the call created or replaced an adapter connection;
\* returned: what an id-keyed lookup returned ("document", or "not_found" for
\* None / {"error": "Document not found"}; "" for the other methods);
\* found: the backends that held the document when delete_document started.
NoHealth == [minio |-> FALSE, qdrant |-> FALSE, postgres |-> FALSE, overall |-> FALSE]

Call(op, doc, ready, raised, status, out, results, failed) ==
    [op |-> op, doc |-> doc, ready |-> ready, raised |-> raised, status |-> status,
     out |-> out, results |-> results, failed |-> failed,
     error |-> NoError, health |-> NoHealth, reconnected |-> FALSE,
     returned |-> "", found |-> {}]

\* No call has just returned.
NoCall == Call("none", 0, FALSE, "none", "", NotCalled, Absent, "none")

\* No request is in flight.
NoTasks == <<>>

Init ==
    /\ initialized = FALSE
    /\ client = [b \in Backends |-> "none"]
    /\ up \in [Backends -> BOOLEAN]
    /\ blobs = {}
    /\ chunks = {}
    /\ rows = {}
    /\ last = NoCall
    /\ pointStore = NoPoints
    /\ sessions = NoSessions
    /\ now = 0
    /\ tasks = NoTasks

\* ------------------------------------------------------------ environment

\* A backend service goes down or comes back.  `last` describes the call
\* that has just returned, in the environment it ran in, so it is cleared.
\* A PostgreSQL that goes down takes the open connection with it.
EnvToggle(b) ==
    /\ up' = [up EXCEPT ![b] = ~up[b]]
    /\ client' = IF b = "postgres" /\ up[b] /\ client[b] = "live"
                 THEN [client EXCEPT ![b] = "stale"] ELSE client
    /\ last' = NoCall
    /\ UNCHANGED <<initialized, blobs, chunks, rows, stores>>

\* ------------------------------------------------- initialize / cleanup

\* The order in which initialize brings the adapters up.
InitOrder == <<"minio", "qdrant", "postgres">>

Pos(b) == CHOOSE i \in 1..3 : InitOrder[i] = b

\* MinioDB.connect_client / QdrantChunksDB.connect_client / PostgresDB._connect:
\* the constructor leaves a client when the service answers, None otherwise.
Connect(b, env) == IF env[b] THEN "live" ELSE "dead"

\* _init_minio / _init_qdrant / _init_postgres succeed when the new adapter
\* has a client and, for minio and qdrant, create_bucket / create_collection
\* returned True (selftest); _init_postgres only looks at _connection.
InitOk(b, env, selftest) ==
    /\ Connect(b, env) = "live"
    /\ (b = "postgres" \/ selftest[b])

\* Index in InitOrder of the first _init_* that raises, 0 when none does.
FirstFailure(env, selftest) ==
    IF \E i \in 1..3 : ~InitOk(InitOrder[i], env, selftest)
    THEN CHOOSE i \in 1..3 :
            /\ ~InitOk(InitOrder[i], env, selftest)
            /\ \A j \in 1..(i-1) : InitOk(InitOrder[j], env, selftest)
    ELSE 0

\* The exception _init_<b> raises from its except clause.
InitBackendError(b) ==
    DatabaseConnectionException(DatabaseType[b], Str(DatabaseConnectionException(DatabaseType[b], <<>>)))

\* Variant of WrapInitError that drops the text of the inner exception.
WrapInitError_NoCause(e) == DatabaseConnectionException("all", <<"initialization failed">>)

\* initialize's except clause: raise DatabaseConnectionException("all", {"error": str(e)})
WrapInitError(e) == DatabaseConnectionException("all", Str(e))

\* cleanup(): records three metrics and resets the flag; the handles are
\* neither closed nor cleared.
CleanupHandles(h) == h

Initialize(selftest) ==
    LET k == FirstFailure(up, selftest)
        reached(b) == k = 0 \/ Pos(b) <= k
        handles == [b \in Backends |-> IF reached(b) THEN Connect(b, up) ELSE client[b]]
    IN  /\ client' = IF k = 0 THEN handles ELSE CleanupHandles(handles)
        /\ initialized' = (k = 0)
        /\ last' = [Call("initialize", 0, initialized,
                         IF k = 0 THEN "none" ELSE "connection", "",
                         NotCalled, Absent,
                         IF k = 0 THEN "none" ELSE InitOrder[k])
                     EXCEPT !.error = IF k = 0 THEN NoError
                                      ELSE WrapInitError(InitBackendError(InitOrder[k])),
                            !.reconnected = TRUE]
        /\ UNCHANGED <<up, blobs, chunks, rows, stores>>

Cleanup ==
    /\ initialized' = FALSE
    /\ client' = CleanupHandles(client)
    /\ last' = Call("cleanup", 0, initialized, "none", "", NotCalled, Absent, "none")
    /\ UNCHANGED <<up, blobs, chunks, rows, stores>>

\* ------------------------------------------------------------ is_healthy

\* MinioDB._check_client / QdrantChunksDB._check_client: _client is not None.
CheckClient(h) == h = "live"

\* PostgresDB._check_connection: probes SELECT 1 and falls back to _connect(),
\* so it answers whether the service is up ...
CheckConnection(h, isUp) == isUp

\* ... and a successful _connect() stores a new connection in the adapter:
\* `self._connection = psycopg2.connect(...)` when there was none or when
\* SELECT 1 raised on the one there was.
HandleAfterCheck(h, isUp) == IF isUp THEN "live" ELSE h

\* What the liveness check of adapter b does when is_healthy evaluates
\* `self.<b>_client and self.<b>_client._check_*()`: "skip" (handle is None,
\* short-circuit), "raise", "true" or "false".
Liveness(b, f) ==
    IF client[b] = "none" THEN "skip"
    ELSE IF f = b THEN "raise"
    ELSE IF b = "postgres"
         THEN (IF CheckConnection(client[b], up[b]) THEN "true" ELSE "false")
    ELSE IF CheckClient(client[b]) THEN "true" ELSE "false"

\* Variant of Overall using any() in place of all().
Overall_Any(m, q, p) == m \/ q \/ p

\* health_status["overall"] = all([minio, qdrant, postgres])
Overall(m, q, p) == m /\ q /\ p

\* is_healthy: the three checks and the overall flag sit in ONE try block; an
\* exception from a check leaves every later entry at its default False.
HealthStatus(f) ==
    LET m == Liveness("minio", f)
        q == Liveness("qdrant", f)
        p == Liveness("postgres", f)
    IN  IF m = "raise" THEN NoHealth
        ELSE IF q = "raise" THEN [NoHealth EXCEPT !.minio = (m = "true")]
        ELSE IF p = "raise" THEN [NoHealth EXCEPT !.minio = (m = "true"), !.qdrant = (q = "true")]
        ELSE [minio |-> (m = "true"), qdrant |-> (q = "true"), postgres |-> (p = "true"),
              overall |-> Overall(m = "true", q = "true", p = "true")]

\* Which checks ran, as seen at the coordinator boundary.
HealthOut(f) ==
    LET ran(b) == \A c \in Backends : (Pos(c) < Pos(b)) => Liveness(c, f) # "raise"
    IN  [b \in Backends |->
            IF ~ran(b) \/ Liveness(b, f) = "skip" THEN "not_called"
            ELSE IF Liveness(b, f) = "raise" THEN "raised"
            ELSE IF Liveness(b, f) = "true" THEN "ok" ELSE "failed"]

IsHealthy(f) ==
    /\ IF f = "none" THEN TRUE ELSE client[f] # "none"
    /\ client' = [client EXCEPT !["postgres"] =
                    IF HealthOut(f)["postgres"] \in {"ok", "failed"}
                    THEN HandleAfterCheck(client["postgres"], up["postgres"])
                    ELSE client["postgres"]]
    /\ last' = [Call("is_healthy", 0, initialized, "none", "", HealthOut(f), Absent, "none")
                 EXCEPT !.health = HealthStatus(f), !.reconnected = (client' # client)]
    /\ UNCHANGED <<initialized, up, blobs, chunks, rows, stores>>

\* DatabaseManager(): a new coordinator, every handle None, not initialized.
NewDatabaseManager == [initialized |-> FALSE, client |-> [b \in Backends |-> "none"]]

\* is_healthy of a coordinator with the handles h when no check raises: each
\* flag is `self.<b>_client and self.<b>_client._check_*()`.
IsHealthyOf(h, env) ==
    LET flag(b) == /\ h[b] # "none"
                   /\ IF b = "postgres" THEN CheckConnection(h[b], env[b]) ELSE CheckClient(h[b])
    IN  [minio |-> flag("minio"), qdrant |-> flag("qdrant"), postgres |-> flag("postgres"),
         overall |-> Overall(flag("minio"), flag("qdrant"), flag("postgres"))]

\* health.py get_database_manager: `return DatabaseManager()`, a new
\* coordinator for every request, not the one lifespan initialized.
HealthRouteManager == NewDatabaseManager

\* GET /health/detailed: db_health = db_manager.is_healthy() on the
\* coordinator its dependency returns; "healthy" if db_health["overall"]
\* else "unhealthy".  The coordinator of the application is not touched.
DetailedHealthCheck ==
    LET db_manager == HealthRouteManager
        db_health == IsHealthyOf(db_manager.client, up)
        overall_status == IF db_health.overall THEN "healthy" ELSE "unhealthy"
    IN  /\ last' = [Call("detailed_health_check", 0, initialized, "none", overall_status,
                         NotCalled, Absent, "none")
                     EXCEPT !.health = db_health]
        /\ UNCHANGED <<initialized, client, up, blobs, chunks, rows, stores>>

\* ------------------------------------------------------ adapter methods
\* Each adapter method is an operator from the adapter handle, the state of
\* its service and the store to [kind: what the returned dict reports,
\* store: the store afterwards].  The adapters catch the exceptions of their
\* clients and report them in the returned dict.

\* MinioDB.insert for the single point create_document passes: create_bucket
\* fails without a client or when the service does not answer; a point with
\* missing fields, a disallowed extension or an oversized file goes to
\* failed_uploads (valid = FALSE); otherwise put_object stores the object
\* under the document id.  `documents` is the returned 'documents' list.
MinioInsert(h, isUp, d, valid, store) ==
    IF h # "live" \/ ~isUp THEN [kind |-> "error", documents |-> {}, store |-> store]
    ELSE IF ~valid THEN [kind |-> "failed_uploads", documents |-> {}, store |-> store]
    ELSE [kind |-> "uploaded", documents |-> {d}, store |-> store \cup {d}]

\* PostgresDB.insert: _check_connection first; then each point is validated
\* (required fields, UUID format: valid = FALSE fails it) and inserted, a
\* failing INSERT (here: the primary key exists) goes to failed_inserts;
\* one commit at the end.
PostgresInsert(h, isUp, points, valid, store) ==
    IF ~CheckConnection(h, isUp) THEN [kind |-> "error", documents |-> {}, store |-> store]
    ELSE LET inserted == IF valid THEN points \ store ELSE {}
         IN  [kind |-> IF inserted = points THEN "inserted" ELSE "failed_inserts",
              documents |-> inserted, store |-> store \cup inserted]

\* MinioDB.delete: remove_object inside try/except; without a client or with
\* the service down the id goes to failed_deletions.  remove_object does not
\* look the key up first.
MinioDelete(h, isUp, d, store) ==
    IF h # "live" \/ ~isUp THEN [kind |-> "failed_deletions", store |-> store]
    ELSE [kind |-> "deleted", store |-> store \ {d}]

\* QdrantChunksDB.delete(by_document_id=True): 'failed' without a client or
\* when the client's delete raises, 'success' otherwise.
QdrantDelete(h, isUp, d, store) ==
    IF ~CheckClient(h) \/ ~isUp THEN [kind |-> "failed", store |-> store]
    ELSE [kind |-> "success", store |-> store \ {d}]

\* PostgresDB.delete: _check_connection; SELECT the row, 'Document not found'
\* in failed_deletions when there is none, else DELETE and commit.
PostgresDelete(h, isUp, d, store) ==
    IF ~CheckConnection(h, isUp) THEN [kind |-> "error", store |-> store]
    ELSE IF d \notin store THEN [kind |-> "not_found", store |-> store]
    ELSE [kind |-> "deleted", store |-> store \ {d}]

\* What a returned dict means at the coordinator boundary.
Outcome(kind) == IF kind \in {"uploaded", "inserted", "deleted", "success"} THEN "ok" ELSE "failed"

\* ------------------------------------------------- coordinator: documents

\* Variant of Ready that accepts a coordinator whose adapters are all up.
Ready_ByHandles == initialized \/ \A b \in Backends : client[b] = "live"

\* `if not self._initialized: raise DatabaseConnectionException("system", ...)`
Ready == initialized

\* Variant of MinioUploadSucceeded that does not look at the upload result.
MinioUploadSucceeded_Unchecked(minio_result) == TRUE

\* create_document line 233: `if minio_result.get('documents'):`
MinioUploadSucceeded(minio_result) == minio_result.documents # {}

\* The state a coordinator method leaves: the call record and the stores.
Effect(call, h, b, c, r) == [call |-> call, client |-> h, blobs |-> b, chunks |-> c, rows |-> r]

Same(call) == Effect(call, client, blobs, chunks, rows)

Apply(e) ==
    /\ last' = [e.call EXCEPT !.reconnected = (e.client # client)]
    /\ client' = e.client
    /\ blobs' = e.blobs
    /\ chunks' = e.chunks
    /\ rows' = e.rows
    /\ UNCHANGED <<initialized, up, stores>>

NotInitialized(op, d) ==
    Same(Call(op, d, initialized, "not_initialized", "", NotCalled, Absent, "none"))

\* create_document(document_id = d): valid / pgValid say whether the point
\* passes MinioDB's / PostgresDB's per-item validation, f which adapter call
\* raises.
CreateDocumentEffect(d, valid, pgValid, f) ==
    LET op == "create_document"
        mr == MinioInsert(client["minio"], up["minio"], d, valid, blobs)
        pr == PostgresInsert(client["postgres"], up["postgres"], mr.documents, pgValid, rows)
        ph == HandleAfterCheck(client["postgres"], up["postgres"])
    IN  IF ~Ready THEN NotInitialized(op, d)
        ELSE IF client["minio"] = "none"
        THEN Same(Call(op, d, initialized, "connection", "", NotCalled, Absent, "none"))
        ELSE IF f = "minio"
        THEN Same(Call(op, d, initialized, "error", "",
                       [NotCalled EXCEPT !["minio"] = "raised"], Absent, "none"))
        ELSE IF ~MinioUploadSucceeded(mr)
        THEN \* raise Exception("MinIO upload failed")
             Effect(Call(op, d, initialized, "error", "",
                         [NotCalled EXCEPT !["minio"] = Outcome(mr.kind)], Absent, "none"),
                    client, mr.store, chunks, rows)
        ELSE IF client["postgres"] = "none"
        THEN Effect(Call(op, d, initialized, "connection", "",
                         [NotCalled EXCEPT !["minio"] = Outcome(mr.kind)], Absent, "none"),
                    client, mr.store, chunks, rows)
        ELSE IF f = "postgres"
        THEN Effect(Call(op, d, initialized, "error", "",
                         [NotCalled EXCEPT !["minio"] = Outcome(mr.kind), !["postgres"] = "raised"],
                         Absent, "none"),
                    client, mr.store, chunks, rows)
        ELSE \* return {"status": "success", ..., "minio_result", "postgres_result"}
             Effect(Call(op, d, initialized, "none", "success",
                         [NotCalled EXCEPT !["minio"] = Outcome(mr.kind),
                                           !["postgres"] = Outcome(pr.kind)],
                         [Absent EXCEPT !["minio"] = mr.kind, !["postgres"] = pr.kind], "none"),
                    [client EXCEPT !["postgres"] = ph], mr.store, chunks, pr.store)

CreateDocument(d, valid, pgValid, f) == Apply(CreateDocumentEffect(d, valid, pgValid, f))

\* The document ids a backend holds.
Holds(b) == CASE b = "minio" -> blobs [] b = "qdrant" -> chunks [] b = "postgres" -> rows

\* delete_document: the three adapter deletions sit in ONE try block, each
\* guarded by `if self.<b>_client:`; the method returns "success" when none
\* raised and {"status": "failed", "results": results + "error"} when one did.
DeleteDocumentEffect(d, f) ==
    LET op == "delete_document"
        called(b) == client[b] # "none"
        mraise == called("minio") /\ f = "minio"
        qraise == ~mraise /\ called("qdrant") /\ f = "qdrant"
        praise == ~mraise /\ ~qraise /\ called("postgres") /\ f = "postgres"
        mrun == called("minio") /\ ~mraise
        qrun == ~mraise /\ called("qdrant") /\ ~qraise
        prun == ~mraise /\ ~qraise /\ called("postgres") /\ ~praise
        mr == MinioDelete(client["minio"], up["minio"], d, blobs)
        qr == QdrantDelete(client["qdrant"], up["qdrant"], d, chunks)
        pr == PostgresDelete(client["postgres"], up["postgres"], d, rows)
        out == [b \in Backends |->
                  CASE b = "minio"    -> IF mraise THEN "raised" ELSE IF mrun THEN Outcome(mr.kind) ELSE "not_called"
                    [] b = "qdrant"   -> IF qraise THEN "raised" ELSE IF qrun THEN Outcome(qr.kind) ELSE "not_called"
                    [] b = "postgres" -> IF praise THEN "raised" ELSE IF prun THEN Outcome(pr.kind) ELSE "not_called"]
        results == [b \in Backends |->
                  CASE b = "minio"    -> IF mrun THEN mr.kind ELSE "absent"
                    [] b = "qdrant"   -> IF qrun THEN qr.kind ELSE "absent"
                    [] b = "postgres" -> IF prun THEN pr.kind ELSE "absent"]
        raised == mraise \/ qraise \/ praise
        found == {b \in Backends : d \in Holds(b)}
    IN  IF ~Ready THEN NotInitialized(op, d)
        ELSE Effect([Call(op, d, initialized, "none", IF raised THEN "failed" ELSE "success",
                          out, results, "none") EXCEPT !.found = found],
                    [client EXCEPT !["postgres"] =
                        IF prun THEN HandleAfterCheck(client["postgres"], up["postgres"])
                        ELSE client["postgres"]],
                    IF mrun THEN mr.store ELSE blobs,
                    IF qrun THEN qr.store ELSE chunks,
                    IF prun THEN pr.store ELSE rows)

DeleteDocument(d, f) == Apply(DeleteDocumentEffect(d, f))

\* ------------------------------- coordinator: the single-adapter methods

\* The adapter each remaining operational method talks to.
OpBackend ==
    [get_document |-> "postgres", update_document |-> "postgres",
     download_document |-> "minio",
     create_chunks |-> "qdrant", get_chunks |-> "qdrant",
     update_chunks |-> "qdrant", delete_chunks |-> "qdrant",
     create_session |-> "postgres", get_session |-> "postgres",
     get_user_sessions |-> "postgres", update_session |-> "postgres",
     delete_session |-> "postgres", expire_old_sessions |-> "postgres",
     get_session_documents |-> "postgres"]

SingleOps == DOMAIN OpBackend

\* Methods whose except clause re-raises as DatabaseConnectionException
\* (download_document and the session methods); the others re-raise as is.
WrapsErrors(op) == op \notin {"get_document", "update_document", "create_chunks",
                              "get_chunks", "update_chunks", "delete_chunks"}

\* Whether the adapter can serve the call: PostgresDB methods start with
\* _check_connection, the MinioDB/QdrantChunksDB ones need their client and
\* an answering service.
Answers(b) ==
    IF b = "postgres" THEN CheckConnection(client[b], up[b])
    ELSE CheckClient(client[b]) /\ up[b]

\* QdrantChunksDB.insert for one chunk of document d: stored when the client
\* answers and the chunk passes validation.
QdrantInsert(h, isUp, d, valid, store) ==
    IF ~CheckClient(h) \/ ~isUp THEN [kind |-> "failed", store |-> store]
    ELSE IF ~valid THEN [kind |-> "failed_points", store |-> store]
    ELSE [kind |-> "success", store |-> store \cup {d}]

\* The 'document_id' keyword PostgresDB.search receives from get_document:
\* none (0), the id travels inside `filters`, a keyword search never reads.
SearchKwargsDocumentId(document_id) == 0

\* PostgresDB.search(document_id=..., limit=1): without a connection an empty
\* 'documents' list next to an 'error' text; else the rows that pass the
\* WHERE clause, which has a document_id condition only for a document_id
\* keyword.
PostgresSearch(h, isUp, document_id, store) ==
    IF ~CheckConnection(h, isUp)
    THEN [documents |-> {}, error |-> "Database connection failed"]
    ELSE [documents |-> IF document_id # 0 THEN store \cap {document_id} ELSE store,
          error |-> ""]

\* get_document: `if result.get("documents"): return result["documents"][0]`,
\* `return None` otherwise; the 'error' key is not read.
GetDocumentReturn(result) == IF result.documents # {} THEN "document" ELSE "not_found"

\* MinioDB.get_file: get_object(...).read() inside `except Exception:
\* return None`, so None without a client, with the service down and for a
\* missing object alike.
MinioGetFile(h, isUp, d, store) ==
    IF h # "live" \/ ~isUp \/ d \notin store THEN "none" ELSE "bytes"

\* download_document: `if file_content is None: return {"error": "Document
\* not found", ...}`, the content dict otherwise.
DownloadDocumentReturn(file_content) == IF file_content = "none" THEN "not_found" ELSE "document"

\* MinioDB.get_document_info: stat_object inside `except Exception: return
\* None`; None without a client, with the service down, for a missing object.
MinioGetDocumentInfo(h, isUp, d, store) ==
    IF h # "live" \/ ~isUp \/ d \notin store THEN "none" ELSE "info"

\* GET /documents/{document_id}/metadata (routes/documents.py) for the
\* get_document call `call`: 503 for a DatabaseConnectionException, 500 for
\* another exception; when get_document returned None the route falls back
\* to minio_client.get_document_info and raises HTTPException(404) without a
\* minio client or without info, inside the try block whose `except
\* Exception` answers 500; 200 with metadata from either store.
GetDocumentMetadataResponse(call, h, minio_info) ==
    IF call.raised \in {"not_initialized", "connection"} THEN 503
    ELSE IF call.raised # "none" THEN 500
    ELSE IF call.returned = "document" THEN 200
    ELSE IF h = "none" \/ minio_info = "none" THEN 500
    ELSE 200

\* One operational method other than create_document / delete_document:
\* the _initialized guard, the `if not self.<b>_client` guard, one adapter
\* call, the result returned as the adapter gave it.
SingleOpEffect(op, d, valid, f) ==
    LET b == OpBackend[op]
        kind == IF op \in {"create_chunks", "update_chunks"}
                THEN QdrantInsert(client[b], up[b], d, valid, chunks).kind
                ELSE IF op = "delete_chunks"
                THEN QdrantDelete(client[b], up[b], d, chunks).kind
                ELSE IF Answers(b) THEN "success" ELSE "failed"
        newChunks == IF op \in {"create_chunks", "update_chunks"}
                     THEN QdrantInsert(client[b], up[b], d, valid, chunks).store
                     ELSE IF op = "delete_chunks"
                     THEN QdrantDelete(client[b], up[b], d, chunks).store
                     ELSE chunks
        returned == IF op = "get_document"
                    THEN GetDocumentReturn(PostgresSearch(client[b], up[b],
                                                          SearchKwargsDocumentId(d), rows))
                    ELSE IF op = "download_document"
                    THEN DownloadDocumentReturn(MinioGetFile(client[b], up[b], d, blobs))
                    ELSE ""
    IN  IF ~Ready THEN NotInitialized(op, d)
        ELSE IF client[b] = "none"
        THEN Same(Call(op, d, initialized, "connection", "", NotCalled, Absent, "none"))
        ELSE IF f = b
        THEN Same(Call(op, d, initialized, IF WrapsErrors(op) THEN "connection" ELSE "error", "",
                       [NotCalled EXCEPT ![b] = "raised"], Absent, "none"))
        ELSE Effect([Call(op, d, initialized, "none", "",
                          [NotCalled EXCEPT ![b] = Outcome(kind)],
                          [Absent EXCEPT ![b] = kind], "none") EXCEPT !.returned = returned],
                    [client EXCEPT !["postgres"] =
                        IF b = "postgres" THEN HandleAfterCheck(client["postgres"], up["postgres"])
                        ELSE client["postgres"]],
                    blobs, newChunks, rows)

SingleOp(op, d, valid, f) == Apply(SingleOpEffect(op, d, valid, f))

ChunkWriteOps == {"create_chunks", "update_chunks"}
DocumentOps == {"get_document", "update_document", "download_document",
                "get_chunks", "delete_chunks"}
SessionOps == SingleOps \ (ChunkWriteOps \cup DocumentOps)

\* Every operational method of the coordinator.
OperationalOps == SingleOps \cup {"create_document", "delete_document"}

\* upload_document (routes/documents.py): the HTTP status the route answers
\* for a create_document call: 503 for a DatabaseConnectionException, 500
\* for any other exception or a top-level "error" key in the result (which
\* create_document never sets), 200 otherwise.
UploadDocumentResponse(call) ==
    IF call.raised \in {"not_initialized", "connection"} THEN 503
    ELSE IF call.raised # "none" THEN 500
    ELSE 200

Next ==
    \/ \E b \in Backends : EnvToggle(b)
    \/ \E st \in [{"minio", "qdrant"} -> BOOLEAN] : Initialize(st)
    \/ Cleanup
    \/ \E f \in Faults : IsHealthy(f)
    \/ DetailedHealthCheck
    \/ \E d \in Docs, valid \in BOOLEAN, pgValid \in BOOLEAN, f \in {"none", "minio", "postgres"} :
            CreateDocument(d, valid, pgValid, f)
    \/ \E d \in Docs, f \in Faults : DeleteDocument(d, f)
    \/ \E op \in ChunkWriteOps, d \in Docs, valid \in BOOLEAN, f \in {"none", "qdrant"} :
            SingleOp(op, d, valid, f)
    \/ \E op \in DocumentOps, d \in Docs :
            \E f \in {"none", OpBackend[op]} : SingleOp(op, d, TRUE, f)
    \/ \E op \in SessionOps, f \in {"none", "postgres"} :
            SingleOp(op, 0, TRUE, f)

Spec == Init /\ [][Next]_vars

\* ====================================================== chunks in detail
\* ChunkSpec follows the vector store point by point: create_chunks,
\* update_chunks, get_chunks, delete_chunks and the Qdrant step of
\* delete_document on pointStore, with the chunk routes on top.

\* One item of a chunk batch as create_chunks / update_chunks receive it.
\* id = 0: no 'id' (a uuid4 is generated); vector = FALSE: no 'vector' or an
\* empty one; document_id = 0 / chunk_content = FALSE: the payload field is
\* missing or empty.
Item(id, vector, document_id, chunk_content, page) ==
    [id |-> id, vector |-> vector, document_id |-> document_id,
     chunk_content |-> chunk_content, page |-> page]

\* The items offered: the well-formed ones, with and without an id, and one
\* item for each way of failing the validation.
ValidItems == {Item(i, TRUE, d, TRUE, p) : i \in {0} \cup PointIds, d \in Docs, p \in Pages}

InvalidItems == {Item(0, FALSE, 1, TRUE, 0), Item(0, TRUE, 0, TRUE, 0), Item(0, TRUE, 1, FALSE, 0)}

\* The point the update_chunks route builds from a ChunkUpdateRequest that
\* carries metadata only: {"id": chunk_id, "payload": {**metadata,
\* "session_id": ..., "updated_at": ...}}, with no "vector" (update.vector is
\* empty), no chunk_content (update.chunk_text is empty) and no document_id.
MetadataOnlyUpdates == {Item(i, FALSE, 0, FALSE, 0) : i \in PointIds}

Items == ValidItems \cup InvalidItems \cup MetadataOnlyUpdates

Batches == UNION {[1..n -> Items] : n \in 0..MaxBatch}

\* Variant of PassesValidation that does not require chunk_content.
PassesValidation_NoContent(point) == point.vector /\ point.document_id # 0

\* QdrantChunksDB.insert lines 180-195: `if not vector` and
\* `missing_fields = [f for f in ['document_id', 'chunk_content'] if not payload.get(f)]`
PassesValidation(point) == point.vector /\ point.document_id # 0 /\ point.chunk_content

\* failed_points: one entry {'index': i, ...} per failing item, i from
\* enumerate(points), i.e. counted from 0.
FailedPoints(batch) ==
    SelectSeq([k \in 1..Len(batch) |-> k - 1], LAMBDA i : ~PassesValidation(batch[i + 1]))

\* qdrant_points: the items that passed, in order.
QdrantPoints(batch) == SelectSeq(batch, PassesValidation)

\* The ids a generated uuid4 can take: any id that is neither stored in the
\* collection nor named in the batch.
FreshIds(col, batch) ==
    {i \in PointIds : col[i] = NoPoint /\ \A k \in 1..Len(batch) : batch[k].id # i}

Smallest(S) == CHOOSE i \in S : \A j \in S : i <= j

\* The ids the items of qdrant_points get: `point.get('id') or str(uuid.uuid4())`.
RECURSIVE AssignIds(_, _)
AssignIds(qdrant_points, free) ==
    IF qdrant_points = <<>> THEN <<>>
    ELSE LET point == Head(qdrant_points)
             point_id == IF point.id # 0 THEN point.id ELSE Smallest(free)
         IN  <<point_id>> \o AssignIds(Tail(qdrant_points), free \ {point_id})

\* client.upsert(collection_name, points): each point replaces whatever the
\* collection holds under its id; of two points with one id the later one stays.
RECURSIVE Upsert(_, _, _)
Upsert(col, qdrant_points, ids) ==
    IF qdrant_points = <<>> THEN col
    ELSE LET point == Head(qdrant_points)
         IN  Upsert([col EXCEPT ![Head(ids)] = Payload(point.document_id, point.page)],
                    Tail(qdrant_points), Tail(ids))

\* The dict QdrantChunksDB.insert returns; has_failed_points: the dict has a
\* 'failed_points' key; ids: the ids given to the points it sent.
InsertResult(status, points_processed, has_failed_points, failed_points, ids, store) ==
    [status |-> status, points_processed |-> points_processed,
     has_failed_points |-> has_failed_points, failed_points |-> failed_points,
     ids |-> ids, store |-> store]

\* QdrantChunksDB.insert(points=batch, collection_name=...).  clientFault is
\* the call of the Qdrant client that raises: "collection_exists", "upsert"
\* or "none".
QdrantInsertBatch(h, clientFault, collection_name, batch, store) ==
    LET qdrant_points == QdrantPoints(batch)
        failed_points == FailedPoints(batch)
        ids == AssignIds(qdrant_points, FreshIds(store[collection_name], batch))
    IN  IF ~CheckClient(h)
        THEN InsertResult("failed", 0, FALSE, <<>>, <<>>, store)
        ELSE IF clientFault = "collection_exists"
        THEN InsertResult("failed", 0, FALSE, <<>>, <<>>, store)
        ELSE IF qdrant_points # <<>> /\ clientFault = "upsert"
        THEN InsertResult("failed", 0, TRUE, failed_points, <<>>, store)
        ELSE InsertResult("success", Len(qdrant_points), failed_points # <<>>, failed_points,
                          ids,
                          [store EXCEPT ![collection_name] =
                              Upsert(store[collection_name], qdrant_points, ids)])

\* The structured filters of a search: document_id = 0 / page = NoPage stand
\* for a filter that is not supplied (None).
NoPage == 0 - 1
Filters(document_id, page) == [document_id |-> document_id, page |-> page]
NoFilters == Filters(0, NoPage)
FilterSets == {Filters(d, p) : d \in {0} \cup Docs, p \in {NoPage} \cup Pages}

\* Whether a stored payload equals every filter value that is supplied.
Matches(payload, filters) ==
    /\ (filters.document_id # 0 => payload.document_id = filters.document_id)
    /\ (filters.page # NoPage => payload.page = filters.page)

\* QdrantChunksDB.search(**kwargs): kwargs.query_vector is whether the
\* vector is truthy; the filter conditions are built from the keyword
\* arguments document_id / user_id / session_id (when truthy) and page (when
\* not None), which Matches applies; `chunks` are the ids of the points the
\* filter admits (client.search cuts them to `limit`).
QdrantSearch(h, clientFault, collection_name, query_vector, kwargs, store) ==
    IF ~query_vector \/ ~CheckClient(h) \/ clientFault # "none"
    THEN [status |-> "failed", chunks |-> {}]
    ELSE [status |-> "success",
          chunks |-> {i \in PointIds : /\ store[collection_name][i] # NoPoint
                                       /\ Matches(store[collection_name][i], kwargs)}]

\* QdrantChunksDB.delete(points_ids=[d], by_document_id=True, collection_name=...):
\* a filter delete on payload.document_id in that one collection.
QdrantDeleteByDocumentId(h, clientFault, collection_name, d, store) ==
    IF ~CheckClient(h) \/ clientFault # "none" THEN [status |-> "failed", store |-> store]
    ELSE [status |-> "success",
          store |-> [store EXCEPT ![collection_name] =
                        [i \in PointIds |-> IF @[i].document_id = d THEN NoPoint ELSE @[i]]]]

\* QdrantChunksDB.delete(points_ids=ids, by_document_id=False, ...).
QdrantDeleteByIds(h, clientFault, collection_name, ids, store) ==
    IF ~CheckClient(h) \/ clientFault # "none" THEN [status |-> "failed", store |-> store]
    ELSE [status |-> "success",
          store |-> [store EXCEPT ![collection_name] =
                        [i \in PointIds |-> IF i \in ids THEN NoPoint ELSE @[i]]]]

\* `collection = collection_name or config.qdrant.default_collection_name`
\* (collection_name = "": None).
Collection(collection_name) ==
    IF collection_name = "" THEN DefaultCollectionName ELSE collection_name

\* The documents that own a chunk in the default collection: what Spec keeps
\* in `chunks`.
ChunkOwners(store) ==
    {store[DefaultCollectionName][i].document_id : i \in PointIds} \ {0}

NoInsertResult == [status |-> "", points_processed |-> 0, has_failed_points |-> FALSE,
                   failed_points |-> <<>>, ids |-> <<>>]

\* The record of a chunk call: the arguments (collection, batch, or
\* query_vector / filters / limit, or doc / ids), what was raised, the dict
\* the adapter returned (result; hits: its 'chunks').
ChunkCall(op, collection, raised) ==
    [op |-> op, ready |-> initialized, raised |-> raised, collection |-> collection,
     batch |-> <<>>, result |-> NoInsertResult,
     query_vector |-> FALSE, filters |-> NoFilters, limit |-> 0, hits |-> {},
     doc |-> 0, ids |-> {}, status |-> ""]

\* The guards every chunk method starts with; "" when the adapter is called.
ChunkGuard(f) ==
    IF ~Ready THEN "not_initialized"
    ELSE IF client["qdrant"] = "none" THEN "connection"
    ELSE IF f = "qdrant" THEN "error"
    ELSE ""

\* What a chunk action leaves alone: the coordinator, the other two stores,
\* the sessions and the clock; `chunks` follows pointStore.
ChunkFrame ==
    /\ chunks' = ChunkOwners(pointStore')
    /\ UNCHANGED <<initialized, client, up, blobs, rows, sessions, now, tasks>>

\* Every id-less item that passes needs an id the store has not used yet.
HasRoom(collection, batch) ==
    Cardinality({k \in 1..Len(batch) : PassesValidation(batch[k]) /\ batch[k].id = 0})
        <= Cardinality(FreshIds(pointStore[collection], batch))

\* create_chunks / update_chunks: both hand the batch to QdrantChunksDB.insert
\* and return its dict as it is.
CreateChunks(op, batch, collection_name, f, clientFault) ==
    LET collection == Collection(collection_name)
        guard == ChunkGuard(f)
        r == QdrantInsertBatch(client["qdrant"], clientFault, collection, batch, pointStore)
    IN  /\ HasRoom(collection, batch)
        /\ IF guard # ""
           THEN /\ last' = [ChunkCall(op, collection, guard) EXCEPT !.batch = batch]
                /\ pointStore' = pointStore
           ELSE /\ last' = [ChunkCall(op, collection, "none") EXCEPT
                               !.batch = batch, !.status = r.status,
                               !.result = [status |-> r.status,
                                           points_processed |-> r.points_processed,
                                           has_failed_points |-> r.has_failed_points,
                                           failed_points |-> r.failed_points,
                                           ids |-> r.ids]]
                /\ pointStore' = r.store
        /\ ChunkFrame

\* The keyword arguments get_chunks passes to QdrantChunksDB.search: with a
\* query vector `search_params.update(filters)` makes each filter a keyword
\* argument; without one the filters go under the single keyword `filters`,
\* which search never reads, next to a dummy vector.
GetChunksKwargs(query_vector, filters) == IF query_vector THEN filters ELSE NoFilters

Limits == {1, MaxPoints}

\* get_chunks(query_vector, filters, limit, collection_name); hits: the
\* `limit` best of the admitted points, whichever the scores make them.
GetChunks(query_vector, filters, limit, collection_name, f, clientFault, hits) ==
    LET collection == Collection(collection_name)
        guard == ChunkGuard(f)
        r == QdrantSearch(client["qdrant"], clientFault, collection, TRUE,
                          GetChunksKwargs(query_vector, filters), pointStore)
        n == IF Cardinality(r.chunks) < limit THEN Cardinality(r.chunks) ELSE limit
    IN  /\ hits \subseteq r.chunks
        /\ guard = "" => Cardinality(hits) = n
        /\ guard # "" => hits = {}
        /\ last' = [ChunkCall("get_chunks", collection, IF guard # "" THEN guard ELSE "none") EXCEPT
                       !.query_vector = query_vector, !.filters = filters, !.limit = limit,
                       !.hits = hits, !.status = IF guard # "" THEN "" ELSE r.status]
        /\ pointStore' = pointStore
        /\ ChunkFrame

\* delete_chunks(chunk_ids, document_id, collection_name): by document when
\* document_id is given, else by ids, else ValueError.
DeleteChunks(ids, d, collection_name, f, clientFault) ==
    LET collection == Collection(collection_name)
        guard == ChunkGuard(f)
        r == IF d # 0
             THEN QdrantDeleteByDocumentId(client["qdrant"], clientFault, collection, d, pointStore)
             ELSE QdrantDeleteByIds(client["qdrant"], clientFault, collection, ids, pointStore)
        raised == IF guard # "" THEN guard
                  ELSE IF d = 0 /\ ids = {} THEN "error"
                  ELSE "none"
    IN  /\ last' = [ChunkCall("delete_chunks", collection, raised) EXCEPT
                       !.doc = d, !.ids = ids,
                       !.status = IF raised = "none" THEN r.status ELSE ""]
        /\ pointStore' = IF raised = "none" THEN r.store ELSE pointStore
        /\ ChunkFrame

\* delete_document with the vector store in detail: the Qdrant step is
\* qdrant_client.delete(points_ids=[d], by_document_id=True,
\*                      collection_name=config.qdrant.default_collection_name).
ChunkDeleteDocument(d, f) ==
    LET e == DeleteDocumentEffect(d, f)
        r == QdrantDeleteByDocumentId(client["qdrant"], "none", DefaultCollectionName,
                                      d, pointStore)
    IN  /\ last' = e.call
        /\ pointStore' = IF e.call.out["qdrant"] = "ok" THEN r.store ELSE pointStore
        /\ client' = e.client
        /\ blobs' = e.blobs
        /\ rows' = e.rows
        /\ chunks' = ChunkOwners(pointStore')
        /\ UNCHANGED <<initialized, up, sessions, now, tasks>>

\* upload_chunks (routes/chunks.py): the response for the dict create_chunks
\* returned; failed_chunks counts the entries of the failure list.
UploadChunksResponse(result) ==
    IF result.status = "success"
    THEN [status |-> "success", chunks_processed |-> result.points_processed,
          failed_chunks |-> Len(result.failed_points)]
    ELSE [status |-> "partial_failure", chunks_processed |-> result.points_processed,
          failed_chunks |-> IF result.has_failed_points THEN Len(result.failed_points) ELSE 1]

\* update_chunks (routes/chunks.py): "success" if result["status"] is, else
\* "partial_failure"; it reads 'points_updated' and 'failed_updates', keys
\* QdrantChunksDB.insert never sets.
UpdateChunksResponse(result) ==
    [status |-> IF result.status = "success" THEN "success" ELSE "partial_failure",
     chunks_processed |-> 0, failed_chunks |-> 0]

\* delete_chunks (routes/chunks.py) for the delete_chunks call `call`: 503
\* for a DatabaseConnectionException, 500 for any other exception; else 200
\* with "success" if result["status"] is, and chunks_affected =
\* len(request.chunk_ids).
DeleteChunksResponse(call) ==
    IF call.raised \in {"not_initialized", "connection"}
    THEN [http |-> 503, status |-> "", chunks_affected |-> 0]
    ELSE IF call.raised # "none"
    THEN [http |-> 500, status |-> "", chunks_affected |-> 0]
    ELSE [http |-> 200,
          status |-> IF call.status = "success" THEN "success" ELSE "partial_failure",
          chunks_affected |-> Cardinality(call.ids)]

ChunkResponse(call) ==
    IF call.op = "create_chunks" THEN UploadChunksResponse(call.result)
    ELSE UpdateChunksResponse(call.result)

\* The coordinator after a successful initialize, all services answering.
ChunkInit ==
    /\ initialized = TRUE
    /\ client = [b \in Backends |-> "live"]
    /\ up = [b \in Backends |-> TRUE]
    /\ blobs = {}
    /\ chunks = {}
    /\ rows = {}
    /\ last = NoCall
    /\ pointStore = NoPoints
    /\ sessions = NoSessions
    /\ now = 0
    /\ tasks = NoTasks

ClientFaults == {"none", "collection_exists", "upsert"}

\* The caller is done with the returned dict.  No method reads `last`, so
\* starting every call from last = NoCall loses no store and no result.
Forget ==
    /\ last # NoCall
    /\ last' = NoCall
    /\ UNCHANGED <<initialized, client, up, blobs, chunks, rows, stores>>

ChunkNext ==
    \/ Forget
    \/ /\ last = NoCall
       /\ \E op \in ChunkWriteOps, batch \in Batches, c \in {"", OtherCollection},
             f \in {"none", "qdrant"} :
            \E cf \in IF f = "none" THEN ClientFaults ELSE {"none"} :
                CreateChunks(op, batch, c, f, cf)
    \/ /\ last = NoCall
       /\ \E qv \in BOOLEAN, filters \in FilterSets, limit \in Limits, c \in {"", OtherCollection},
             f \in {"none", "qdrant"}, hits \in SUBSET PointIds :
            \E cf \in IF f = "none" THEN {"none", "search"} ELSE {"none"} :
                GetChunks(qv, filters, limit, c, f, cf, hits)
    \/ /\ last = NoCall
       /\ \E ids \in SUBSET PointIds, d \in {0} \cup Docs, c \in {"", OtherCollection},
             f \in {"none", "qdrant"} :
            \E cf \in IF f = "none" THEN {"none", "delete"} ELSE {"none"} :
                DeleteChunks(ids, d, c, f, cf)
    \/ /\ last = NoCall
       /\ \E d \in Docs, f \in Faults : ChunkDeleteDocument(d, f)

ChunkSpec == ChunkInit /\ [][ChunkNext]_vars

\* ==================================================== sessions in detail
\* SessionSpec follows the session routes (routes/sessions.py) through the
\* coordinator's session methods down to the sessions table.  The session
\* methods of the relational adapter are taken from the adapter contract;
\* the routes and the coordinator methods are the code.

Statuses == {"active", "expired", "finalized"}

\* createSession: a new row, status "active", under an unused session_id.
PgCreateSession(expires_at, table) ==
    LET s == CHOOSE i \in SessionIds : table[i] = NoSession /\ \A j \in SessionIds :
                                          table[j] = NoSession => i <= j
    IN  [session_id |-> s, table |-> [table EXCEPT ![s] = SessionRow("active", expires_at)]]

\* getSession: the stored row, NoSession (None) when there is none.
PgGetSession(s, table) == table[s]

NoTime == 0 - 1

\* updateSession: status and expiry are independently optional ("" / NoTime:
\* not given); "not_found" when there is no row.
PgUpdateSession(s, status, expires_at, table) ==
    IF table[s] = NoSession THEN [error |-> "not_found", table |-> table]
    ELSE [error |-> "",
          table |-> [table EXCEPT ![s] =
                        SessionRow(IF status = "" THEN @.status ELSE status,
                                   IF expires_at = NoTime THEN @.expires_at ELSE expires_at)]]

\* deleteSession.
PgDeleteSession(s, table) ==
    IF table[s] = NoSession THEN [error |-> "not_found", table |-> table]
    ELSE [error |-> "", table |-> [table EXCEPT ![s] = NoSession]]

\* Variant of SweepSelects that leaves the status test out of the WHERE clause.
SweepSelects_AnyStatus(row, clock) == row # NoSession /\ row.expires_at < clock

\* sweepExpiredSessions' WHERE clause: status != 'expired' AND expires_at < now().
SweepSelects(row, clock) ==
    row # NoSession /\ row.status # "expired" /\ row.expires_at < clock

\* sweepExpiredSessions: UPDATE ... SET status = 'expired' WHERE ...; the
\* count of the rows it updated.
PgExpireOldSessions(clock, table) ==
    LET hit == {s \in SessionIds : SweepSelects(table[s], clock)}
    IN  [expired_count |-> Cardinality(hit),
         table |-> [s \in SessionIds |->
                      IF s \in hit THEN SessionRow("expired", table[s].expires_at)
                      ELSE table[s]]]

\* The guards every session method of the coordinator starts with, and its
\* except clause, which re-raises everything as DatabaseConnectionException.
SessionGuard(f) ==
    IF ~Ready THEN "not_initialized"
    ELSE IF client["postgres"] = "none" THEN "connection"
    ELSE IF f THEN "connection"
    ELSE ""

\* Variant of GetSessionReturn that reports a session past its expiry as expired.
GetSessionReturn_Lazy(result, clock) ==
    IF result # NoSession /\ result.expires_at < clock
    THEN SessionRow("expired", result.expires_at) ELSE result

\* get_session: `result = self.postgres_client.get_session(session_id)` ...
\* `return result`; the clock (start_time) only feeds the metrics.
GetSessionReturn(result, clock) == result

\* Variant of ExtendedExpiry that counts from the current time.
ExtendedExpiry_FromNow(current_expires, extend_hours, clock) == clock + extend_hours

\* update_session route: `expires_at = current_expires + timedelta(hours=request.extend_hours)`;
\* the clock is not read.
ExtendedExpiry(current_expires, extend_hours, clock) == current_expires + extend_hours

\* The record of a session call.  before: the table when the call started;
\* returned: the row the call returned; http: the status the route answers;
\* swept: an expiry sweep has completed and since then no session was
\* created, updated or deleted and no session passed its expires_at;
\* in_a_row: swept, when the call started; response_status: the "status"
\* field of the response body ("" when it has none).
SessionCall(op, s, raised, http) ==
    [op |-> op, ready |-> initialized, raised |-> raised, session_id |-> s, http |-> http,
     before |-> sessions, returned |-> NoSession, extend_hours |-> 0, expired_count |-> 0,
     swept |-> FALSE, in_a_row |-> last.swept, response_status |-> ""]

\* No call has just returned.
NoSessionCall(swept) == [op |-> "none", swept |-> swept]

\* The HTTP status for what a coordinator call raised.
HttpOfRaise(raised) == IF raised \in {"not_initialized", "connection"} THEN 503 ELSE 500

SessionFrame == UNCHANGED <<initialized, client, up, blobs, chunks, rows, pointStore, now, tasks>>

\* POST /sessions: expires_at = utcnow() + expires_in_hours, then create_session.
CreateSessionRoute(expires_in_hours, f) ==
    LET guard == SessionGuard(f)
        expires_at == now + expires_in_hours
        r == PgCreateSession(expires_at, sessions)
    IN  /\ expires_at <= MaxTime
        /\ \E s \in SessionIds : sessions[s] = NoSession
        /\ IF guard # ""
           THEN /\ last' = SessionCall("create_session", 0, guard, HttpOfRaise(guard))
                /\ sessions' = sessions
           ELSE /\ last' = [SessionCall("create_session", r.session_id, "none", 200)
                               EXCEPT !.returned = r.table[r.session_id]]
                /\ sessions' = r.table
        /\ SessionFrame

\* GET /sessions/{session_id}: get_session, 404 when it returns nothing.
GetSessionRoute(s, f) ==
    LET guard == SessionGuard(f)
        session_data == GetSessionReturn(PgGetSession(s, sessions), now)
    IN  /\ last' = IF guard # ""
                   THEN [SessionCall("get_session", s, guard, HttpOfRaise(guard))
                            EXCEPT !.swept = last.swept]
                   ELSE [SessionCall("get_session", s, "none",
                                     IF session_data = NoSession THEN 404 ELSE 200)
                            EXCEPT !.returned = session_data, !.swept = last.swept]
        /\ sessions' = sessions
        /\ SessionFrame

\* PUT /sessions/{session_id}: with extend_hours (0: not given) the route
\* first reads the session and adds the hours to its expires_at, then calls
\* update_session with the status ("" : not given) and that expiry; f1 / f2:
\* the adapter call under get_session / update_session raises.
UpdateSessionRoute(s, status, extend_hours, f1, f2) ==
    LET guard1 == IF extend_hours # 0 THEN SessionGuard(f1) ELSE ""
        current_session == GetSessionReturn(PgGetSession(s, sessions), now)
        expires_at == IF extend_hours # 0 /\ current_session # NoSession
                      THEN ExtendedExpiry(current_session.expires_at, extend_hours, now)
                      ELSE NoTime
        guard2 == SessionGuard(f2)
        r == PgUpdateSession(s, status, expires_at, sessions)
    IN  /\ expires_at <= MaxTime
        /\ IF guard1 # "" \/ guard2 # ""
           THEN /\ last' = [SessionCall("update_session", s,
                                        IF guard1 # "" THEN guard1 ELSE guard2,
                                        HttpOfRaise(IF guard1 # "" THEN guard1 ELSE guard2))
                               EXCEPT !.extend_hours = extend_hours]
                /\ sessions' = sessions
           ELSE /\ last' = [SessionCall("update_session", s, "none",
                                        IF r.error = "not_found" THEN 404 ELSE 200)
                               EXCEPT !.extend_hours = extend_hours, !.returned = r.table[s]]
                /\ sessions' = r.table
        /\ SessionFrame

\* DELETE /sessions/{session_id}.
DeleteSessionRoute(s, f) ==
    LET guard == SessionGuard(f)
        r == PgDeleteSession(s, sessions)
    IN  /\ IF guard # ""
           THEN /\ last' = SessionCall("delete_session", s, guard, HttpOfRaise(guard))
                /\ sessions' = sessions
           ELSE /\ last' = SessionCall("delete_session", s, "none",
                                       IF r.error = "not_found" THEN 404 ELSE 200)
                /\ sessions' = r.table
        /\ SessionFrame

\* POST /sessions/expire: expire_old_sessions, answered with its expired_count.
ExpireOldSessionsRoute(f) ==
    LET guard == SessionGuard(f)
        r == PgExpireOldSessions(now, sessions)
    IN  /\ IF guard # ""
           THEN /\ last' = [SessionCall("expire_old_sessions", 0, guard, HttpOfRaise(guard))
                               EXCEPT !.swept = last.swept]
                /\ sessions' = sessions
           ELSE /\ last' = [SessionCall("expire_old_sessions", 0, "none", 200)
                               EXCEPT !.expired_count = r.expired_count, !.swept = TRUE]
                /\ sessions' = r.table
        /\ SessionFrame

\* The last handler of finalize_session and delete_legacy_session:
\* `except Exception as e: raise HTTPException(status_code=500, ...)`.  These
\* routes have no `except HTTPException: raise` before it, and an
\* HTTPException is an Exception, so the HTTPException(status_code) raised
\* inside their try block comes out as 500.
ExceptException(status_code) == 500

\* POST /session/{session_id}/finalize (routes/management.py): get_session,
\* 404 without a session; get_session_documents only feeds the count and
\* its exceptions are logged; update_session(status="finalized") inside
\* `try ... except Exception: logger.warning(...)`; then the response with
\* status "finalized".  f1 / f3: the adapter call under get_session /
\* update_session raises.
FinalizeSessionRoute(s, f1, f3) ==
    LET guard1 == SessionGuard(f1)
        session_data == GetSessionReturn(PgGetSession(s, sessions), now)
        guard3 == SessionGuard(f3)
        r == PgUpdateSession(s, "finalized", NoTime, sessions)
    IN  /\ IF guard1 # ""
           THEN /\ last' = SessionCall("finalize_session", s, guard1, HttpOfRaise(guard1))
                /\ sessions' = sessions
           ELSE IF session_data = NoSession
           THEN /\ last' = SessionCall("finalize_session", s, "none", ExceptException(404))
                /\ sessions' = sessions
           ELSE /\ last' = [SessionCall("finalize_session", s, "none", 200)
                               EXCEPT !.response_status = "finalized",
                                      !.returned = session_data]
                /\ sessions' = IF guard3 # "" THEN sessions ELSE r.table
        /\ SessionFrame

\* DELETE /session/{session_id} (routes/management.py): delete_session; an
\* "error" in its result raises HTTPException(404 if "not found" in it else
\* 500); get_session_documents only feeds the count.
DeleteLegacySessionRoute(s, f) ==
    LET guard == SessionGuard(f)
        r == PgDeleteSession(s, sessions)
    IN  /\ IF guard # ""
           THEN /\ last' = SessionCall("delete_legacy_session", s, guard, HttpOfRaise(guard))
                /\ sessions' = sessions
           ELSE /\ last' = SessionCall("delete_legacy_session", s, "none",
                                       IF r.error = "not_found" THEN ExceptException(404)
                                       ELSE 200)
                /\ sessions' = r.table
        /\ SessionFrame

\* An hour passes between two calls; a session whose expires_at was not yet
\* behind the clock and now is has passed its expiry.
Tick ==
    /\ last.op = "none"
    /\ now < MaxTime
    /\ now' = now + 1
    /\ last' = NoSessionCall(last.swept /\ \A s \in SessionIds :
                                sessions[s] # NoSession => sessions[s].expires_at # now)
    /\ UNCHANGED <<initialized, client, up, blobs, chunks, rows, pointStore, sessions, tasks>>

\* The caller is done with the response.
ForgetSessionCall ==
    /\ last.op # "none"
    /\ last' = NoSessionCall(last.swept)
    /\ UNCHANGED <<initialized, client, up, blobs, chunks, rows, stores>>

SessionInit ==
    /\ initialized = TRUE
    /\ client = [b \in Backends |-> "live"]
    /\ up = [b \in Backends |-> TRUE]
    /\ blobs = {}
    /\ chunks = {}
    /\ rows = {}
    /\ last = NoSessionCall(FALSE)
    /\ pointStore = NoPoints
    /\ sessions = NoSessions
    /\ now = 0
    /\ tasks = NoTasks

SessionNext ==
    \/ Tick
    \/ ForgetSessionCall
    \/ /\ last.op = "none"
       /\ \E h \in Hours, f \in BOOLEAN : CreateSessionRoute(h, f)
    \/ /\ last.op = "none"
       /\ \E s \in SessionIds, f \in BOOLEAN : GetSessionRoute(s, f)
    \/ /\ last.op = "none"
       /\ \E s \in SessionIds, status \in {""} \cup Statuses, h \in {0} \cup Hours,
             f1 \in BOOLEAN, f2 \in BOOLEAN : UpdateSessionRoute(s, status, h, f1, f2)
    \/ /\ last.op = "none"
       /\ \E s \in SessionIds, f \in BOOLEAN : DeleteSessionRoute(s, f)
    \/ /\ last.op = "none"
       /\ \E f \in BOOLEAN : ExpireOldSessionsRoute(f)
    \/ /\ last.op = "none"
       /\ \E s \in SessionIds, f1 \in BOOLEAN, f3 \in BOOLEAN : FinalizeSessionRoute(s, f1, f3)
    \/ /\ last.op = "none"
       /\ \E s \in SessionIds, f \in BOOLEAN : DeleteLegacySessionRoute(s, f)

SessionSpec == SessionInit /\ [][SessionNext]_vars

\* ============================================= multi-row document insert
\* RowSpec applies PostgresDB.insert to batches of several rows, which the
\* coordinator (one row per create_document) never does.

RowIds == 1..MaxRowIds

\* One point of PostgresDB.insert: valid says whether it has the required
\* fields and well-formed UUIDs.
Row(document_id, valid) == [document_id |-> document_id, valid |-> valid]

RowBatches == UNION {[1..n -> {Row(d, v) : d \in RowIds, v \in BOOLEAN}] : n \in 0..MaxBatch}

\* The `for point in points` loop of PostgresDB.insert inside the one cursor.
\* table: the rows the transaction sees; aborted: a statement of this
\* transaction has failed, after which PostgreSQL rejects every further
\* statement; documents: the ids appended to `documents`; failed_inserts: the
\* batch positions (from 1) appended to failed_inserts; k: the position.
RECURSIVE InsertLoop(_, _, _, _, _, _)
InsertLoop(batch, k, table, aborted, documents, failed_inserts) ==
    IF k > Len(batch)
    THEN [table |-> table, aborted |-> aborted, documents |-> documents,
          failed_inserts |-> failed_inserts]
    ELSE LET point == batch[k]
         IN  IF ~point.valid
             THEN \* validation: failed_inserts.append(...); continue
                  InsertLoop(batch, k + 1, table, aborted, documents,
                             Append(failed_inserts, k))
             ELSE IF aborted \/ point.document_id \in table
             THEN \* cursor.execute raises: except Exception -> failed_inserts
                  InsertLoop(batch, k + 1, table, TRUE, documents,
                             Append(failed_inserts, k))
             ELSE InsertLoop(batch, k + 1, table \cup {point.document_id}, FALSE,
                             Append(documents, point.document_id), failed_inserts)

\* `self._connection.commit()` after the loop: the one commit stores what the
\* transaction inserted, unless the transaction is aborted, when it ends in
\* a rollback.
Committed(loop, store) == IF loop.aborted THEN store ELSE loop.table

\* PostgresDB.insert(points=batch).
PostgresInsertBatch(h, isUp, batch, store) ==
    IF ~CheckConnection(h, isUp)
    THEN [error |-> "Database connection failed", documents |-> <<>>,
          failed_inserts |-> <<>>, store |-> store]
    ELSE LET loop == InsertLoop(batch, 1, store, FALSE, <<>>, <<>>)
         IN  [error |-> "", documents |-> loop.documents,
              failed_inserts |-> loop.failed_inserts, store |-> Committed(loop, store)]

RowFrame == UNCHANGED <<initialized, up, blobs, chunks, stores>>

InsertRows(batch) ==
    LET r == PostgresInsertBatch(client["postgres"], up["postgres"], batch, rows)
    IN  /\ last' = [op |-> "insert", batch |-> batch, before |-> rows, error |-> r.error,
                    documents |-> r.documents, failed_inserts |-> r.failed_inserts]
        /\ rows' = r.store
        /\ client' = [client EXCEPT !["postgres"] = HandleAfterCheck(@, up["postgres"])]
        /\ RowFrame

\* PostgresDB.delete([d]).
DeleteRows(d) ==
    LET r == PostgresDelete(client["postgres"], up["postgres"], d, rows)
    IN  /\ last' = [op |-> "delete", batch |-> <<>>, before |-> rows, error |-> r.kind,
                    documents |-> <<>>, failed_inserts |-> <<>>]
        /\ rows' = r.store
        /\ client' = [client EXCEPT !["postgres"] = HandleAfterCheck(@, up["postgres"])]
        /\ RowFrame

\* The rows `result["documents"][0]` of get_document can be: the first of
\* the rows search selected, newest created_at first.  The model keeps no
\* created_at, so it is any of them; 0 stands for None.
FirstDocument(result) == IF result.documents = {} THEN {0} ELSE result.documents

\* DatabaseManager.get_document(document_id = d) on the table of RowSpec;
\* f = "postgres": the search call raises and get_document re-raises it.
GetDocumentRow(d, f) ==
    LET result == PostgresSearch(client["postgres"], up["postgres"],
                                 SearchKwargsDocumentId(d), rows)
        record(raised, row) ==
            [op |-> "get_document", doc |-> d, before |-> rows, raised |-> raised,
             returned |-> row, error |-> IF raised = "none" THEN result.error ELSE ""]
    IN  /\ IF ~Ready THEN last' = record("not_initialized", 0)
           ELSE IF client["postgres"] = "none" THEN last' = record("connection", 0)
           ELSE IF f = "postgres" THEN last' = record("error", 0)
           ELSE \E row \in FirstDocument(result) : last' = record("none", row)
        /\ client' = [client EXCEPT !["postgres"] =
                        IF Ready /\ client["postgres"] # "none" /\ f = "none"
                        THEN HandleAfterCheck(@, up["postgres"]) ELSE @]
        /\ UNCHANGED rows
        /\ RowFrame

RowNext ==
    \/ EnvToggle("postgres")
    \/ Forget
    \/ /\ last = NoCall
       /\ \E batch \in RowBatches : InsertRows(batch)
    \/ /\ last = NoCall
       /\ \E d \in RowIds : DeleteRows(d)
    \/ /\ last = NoCall
       /\ \E d \in RowIds, f \in {"none", "postgres"} : GetDocumentRow(d, f)

RowSpec == ChunkInit /\ [][RowNext]_vars

\* ================================ concurrent create_document / delete_document
\* DocRaceSpec runs one create_document and one delete_document request at a
\* time, side by side, over the shared stores.  Each step of a request is
\* one adapter call of its method, in the order of the code; between two
\* adapter calls the other request may run.

\* A request handler: pc is the adapter call it makes next ("idle": no
\* request; "done": the method has returned or raised), doc its document_id,
\* status what the method returned ("success", "failed") or "raised", clean
\* whether every adapter call it made so far did its work, documents the
\* 'documents' of minio_result.
Task(pc, doc, status, clean, documents) ==
    [pc |-> pc, doc |-> doc, status |-> status, clean |-> clean, documents |-> documents]

IdleTask == Task("idle", 0, "", TRUE, {})

DocRaceInit ==
    /\ initialized = TRUE
    /\ client = [b \in Backends |-> "live"]
    /\ up = [b \in Backends |-> TRUE]
    /\ blobs = {}
    /\ chunks = {}
    /\ rows = {}
    /\ last = NoCall
    /\ pointStore = NoPoints
    /\ sessions = NoSessions
    /\ now = 0
    /\ tasks = [create |-> IdleTask, delete |-> IdleTask]

DocRaceFrame == UNCHANGED <<initialized, up, last, pointStore, sessions, now>>

\* create_document, first adapter call: minio_client.insert; an empty
\* 'documents' makes the method raise "MinIO upload failed".
CreateDocumentBlobStep(d) ==
    LET mr == MinioInsert(client["minio"], up["minio"], d, TRUE, blobs)
    IN  /\ tasks["create"].pc = "idle"
        /\ Ready /\ client["minio"] # "none"
        /\ blobs' = mr.store
        /\ tasks' = [tasks EXCEPT !["create"] =
                        IF MinioUploadSucceeded(mr)
                        THEN Task("postgres", d, "", TRUE, mr.documents)
                        ELSE Task("done", d, "raised", FALSE, {})]
        /\ UNCHANGED <<client, chunks, rows>>
        /\ DocRaceFrame

\* create_document, second adapter call: postgres_client.insert of what the
\* upload returned; the method returns "success" whatever the insert reports.
CreateDocumentRowStep ==
    LET t  == tasks["create"]
        pr == PostgresInsert(client["postgres"], up["postgres"], t.documents, TRUE, rows)
    IN  /\ t.pc = "postgres"
        /\ client["postgres"] # "none"
        /\ rows' = pr.store
        /\ client' = [client EXCEPT !["postgres"] = HandleAfterCheck(@, up["postgres"])]
        /\ tasks' = [tasks EXCEPT !["create"] =
                        Task("done", t.doc, "success", Outcome(pr.kind) = "ok", t.documents)]
        /\ UNCHANGED <<blobs, chunks>>
        /\ DocRaceFrame

\* delete_document, one adapter call per step: minio_client.delete,
\* qdrant_client.delete, postgres_client.delete, then "success".
DeleteDocumentStep(d) ==
    LET t  == tasks["delete"]
        id == IF t.pc = "idle" THEN d ELSE t.doc
        mr == MinioDelete(client["minio"], up["minio"], id, blobs)
        qr == QdrantDelete(client["qdrant"], up["qdrant"], id, chunks)
        pr == PostgresDelete(client["postgres"], up["postgres"], id, rows)
    IN  /\ Ready /\ \A b \in Backends : client[b] # "none"
        /\ \/ /\ t.pc = "idle"
              /\ blobs' = mr.store
              /\ tasks' = [tasks EXCEPT !["delete"] =
                              Task("qdrant", id, "", Outcome(mr.kind) = "ok", {})]
              /\ UNCHANGED <<client, chunks, rows>>
           \/ /\ t.pc = "qdrant" /\ d = t.doc
              /\ chunks' = qr.store
              /\ tasks' = [tasks EXCEPT !["delete"] =
                              Task("postgres", id, "", t.clean /\ Outcome(qr.kind) = "ok", {})]
              /\ UNCHANGED <<client, blobs, rows>>
           \/ /\ t.pc = "postgres" /\ d = t.doc
              /\ rows' = pr.store
              /\ client' = [client EXCEPT !["postgres"] = HandleAfterCheck(@, up["postgres"])]
              /\ tasks' = [tasks EXCEPT !["delete"] =
                              Task("done", id, "success",
                                   t.clean /\ pr.kind \in {"deleted", "not_found"}, {})]
              /\ UNCHANGED <<blobs, chunks>>
        /\ DocRaceFrame

\* Both responses have been sent; the handlers take the next requests.
NextRequests ==
    /\ \A h \in DOMAIN tasks : tasks[h].pc = "done"
    /\ tasks' = [h \in DOMAIN tasks |-> IdleTask]
    /\ UNCHANGED <<initialized, client, up, blobs, chunks, rows, last, pointStore, sessions, now>>

DocRaceNext ==
    \/ \E b \in Backends : EnvToggle(b)
    \/ \E d \in Docs : CreateDocumentBlobStep(d)
    \/ CreateDocumentRowStep
    \/ \E d \in Docs : DeleteDocumentStep(d)
    \/ NextRequests

DocRaceSpec == DocRaceInit /\ [][DocRaceNext]_vars

\* ===================================== concurrent update_session requests
\* SessionRaceSpec runs two PUT /sessions/{session_id} requests that extend
\* a session, side by side.  A request is two coordinator calls, get_session
\* and update_session; the other request may run between them.

\* An update request: pc is the call it makes next ("idle", "update",
\* "done"), current_expires what its get_session returned, http the answer
\* of the route (0: none yet), T the session's expires_at before the first
\* of the requests in flight read it.
UpdateTask(pc, session_id, extend_hours, current_expires, http, T) ==
    [pc |-> pc, session_id |-> session_id, extend_hours |-> extend_hours,
     current_expires |-> current_expires, http |-> http, T |-> T]

IdleUpdate == UpdateTask("idle", 0, 0, NoTime, 0, NoTime)

Handlers == {"first", "second"}

Other(h) == CHOOSE g \in Handlers : g # h

SessionRaceInit ==
    /\ initialized = TRUE
    /\ client = [b \in Backends |-> "live"]
    /\ up = [b \in Backends |-> TRUE]
    /\ blobs = {}
    /\ chunks = {}
    /\ rows = {}
    /\ last = NoSessionCall(FALSE)
    /\ pointStore = NoPoints
    /\ sessions = NoSessions
    /\ now = 0
    /\ tasks = [h \in Handlers |-> IdleUpdate]

SessionRaceFrame ==
    UNCHANGED <<initialized, client, up, blobs, chunks, rows, last, pointStore, now>>

\* update_session route, first call: `current_session = await
\* db_manager.get_session(session_id)`; without a session the route goes on
\* with expires_at = None.
UpdateSessionRead(h, s, extend_hours) ==
    LET current_session == GetSessionReturn(PgGetSession(s, sessions), now)
        o == tasks[Other(h)]
        T == IF o.pc # "idle" /\ o.session_id = s /\ o.T # NoTime THEN o.T
             ELSE IF current_session = NoSession THEN NoTime
             ELSE current_session.expires_at
    IN  /\ tasks[h].pc = "idle"
        /\ SessionGuard(FALSE) = ""
        /\ tasks' = [tasks EXCEPT ![h] =
                        UpdateTask("update", s, extend_hours,
                                   IF current_session = NoSession THEN NoTime
                                   ELSE current_session.expires_at, 0, T)]
        /\ UNCHANGED sessions
        /\ SessionRaceFrame

\* update_session route, second call: `await db_manager.update_session(...,
\* expires_at=expires_at)` with the expiry computed from what was read.
UpdateSessionWrite(h) ==
    LET t == tasks[h]
        expires_at == IF t.current_expires = NoTime THEN NoTime
                      ELSE ExtendedExpiry(t.current_expires, t.extend_hours, now)
        r == PgUpdateSession(t.session_id, "", expires_at, sessions)
    IN  /\ t.pc = "update"
        /\ expires_at <= MaxTime
        /\ SessionGuard(FALSE) = ""
        /\ sessions' = r.table
        /\ tasks' = [tasks EXCEPT ![h] =
                        [t EXCEPT !.pc = "done",
                                  !.http = IF r.error = "not_found" THEN 404 ELSE 200]]
        /\ SessionRaceFrame

\* Both responses have been sent; the handlers take the next requests.
NextUpdateRequests ==
    /\ \A h \in Handlers : tasks[h].pc = "done"
    /\ tasks' = [h \in Handlers |-> IdleUpdate]
    /\ UNCHANGED sessions
    /\ SessionRaceFrame

\* A session is created while no update request is in flight.
CreateSessionBetween(expires_in_hours) ==
    /\ \A h \in Handlers : tasks[h].pc = "idle"
    /\ last.op = "none"
    /\ CreateSessionRoute(expires_in_hours, FALSE)

SessionRaceNext ==
    \/ \E hours \in Hours : CreateSessionBetween(hours)
    \/ ForgetSessionCall
    \/ \E h \in Handlers, s \in SessionIds, hours \in Hours : UpdateSessionRead(h, s, hours)
    \/ \E h \in Handlers : UpdateSessionWrite(h)
    \/ NextUpdateRequests

SessionRaceSpec == SessionRaceInit /\ [][SessionRaceNext]_vars

\* ================================================================ claims

\* C1: when the blob-store write of create_document fails (MinioDB.insert
\* returns no document, or raises), PostgresDB.insert is not called in that
\* operation, no relational connection is touched, and the operation raises.
C1_BlobFailureSkipsRelational ==
    (last.op = "create_document" /\ last.out["minio"] \in {"failed", "raised"})
        => /\ last.out["postgres"] = "not_called"
           /\ ~last.reconnected
           /\ last.raised # "none"

C1_Witness ==
    /\ last.op = "create_document" /\ last.ready
    /\ last.out["minio"] = "failed"
    /\ last.raised = "error"

\* C2: when the relational write fails after a successful blob write,
\* create_document reports a failed operation to its caller (it raises, or its
\* status is not "success", or the upload route answers an error), and the
\* blob stays in the blob store.
C2_RelationalFailureSurfaced ==
    (last.op = "create_document" /\ last.out["minio"] = "ok"
        /\ last.out["postgres"] \in {"failed", "raised"})
        => /\ (last.raised # "none" \/ last.status # "success"
                \/ UploadDocumentResponse(last) # 200)
           /\ last.doc \in blobs

\* C3: when the vector-store deletion of delete_document fails, by a failure
\* result or by raising, the blob and relational deletions are still called,
\* the per-backend map has a failing qdrant entry and entries for minio and
\* postgres, and where those two services work the blob and the row are gone.
C3_DeleteIndependence ==
    (last.op = "delete_document" /\ last.ready /\ last.out["qdrant"] \in {"failed", "raised"})
        => /\ last.out["minio"] # "not_called"
           /\ last.out["postgres"] # "not_called"
           /\ last.results["qdrant"] = "failed"
           /\ (up["minio"] => (last.results["minio"] = "deleted" /\ last.doc \notin blobs))
           /\ (up["postgres"] => (last.results["postgres"] \in {"deleted", "not_found"}
                                    /\ last.doc \notin rows))

\* What counts as a backend reporting a failed deletion: MinioDB's
\* failed_deletions, QdrantChunksDB's 'failed', PostgresDB's 'error', or a
\* raised exception; a relational "not found" is not counted.
FailedDeletion(b) ==
    \/ last.out[b] = "raised"
    \/ last.results[b] \in {"failed_deletions", "failed", "error"}

\* C4: delete_document returns status "success" only if no backend reported a
\* failed deletion.
C4_SuccessOnlyIfAllSucceeded ==
    (last.op = "delete_document" /\ last.status = "success")
        => \A b \in Backends : ~FailedDeletion(b)

\* C5: an operational method called while _initialized is False raises the
\* not-initialized error, calls no adapter and creates no connection.
C5_NotReadyFailsFast ==
    (last.op \in OperationalOps /\ ~last.ready)
        => /\ last.raised = "not_initialized"
           /\ last.out = NotCalled
           /\ ~last.reconnected

C5_Witness ==
    /\ last.op = "delete_chunks" /\ ~last.ready
    /\ \A b \in Backends : client[b] = "live" /\ up[b]
    /\ last.raised = "not_initialized"

\* The backends an exception names, in its message or in its detail text.
Mentions(text, b) == \E i \in DOMAIN text : text[i] = DatabaseType[b]

NamedBackends(e) == {b \in Backends : Mentions(e.message, b) \/ Mentions(e.detail, b)}

\* C6: the exception a failed initialize raises is a connection error whose
\* content names exactly the backend whose connection failed.
C6_InitErrorNamesBackend ==
    (last.op = "initialize" /\ last.raised # "none")
        => /\ last.error.error_code = "DATABASE_CONNECTION_ERROR"
           /\ NamedBackends(last.error) = {last.failed}

C6_Witness ==
    /\ last.op = "initialize" /\ last.raised = "connection"
    /\ last.failed = "qdrant"
    /\ client["minio"] = "live"

\* C7: after a failed initialize the coordinator is not ready and holds no
\* live adapter handle.
C7_FailedInitTearsDown ==
    (last.op = "initialize" /\ last.raised # "none")
        => /\ ~initialized
           /\ \A b \in Backends : client[b] # "live"

\* C8: after cleanup of a ready coordinator the coordinator is uninitialized
\* and no adapter connection remains open.
C8_ShutdownClosesAdapters ==
    (last.op = "cleanup" /\ last.ready)
        => /\ ~initialized
           /\ \A b \in Backends : client[b] # "live"

\* C9: is_healthy never raises, and when the vector adapter's liveness check
\* throws while the blob adapter has its client and the relational service
\* answers, it returns minio=true, qdrant=false, postgres=true, overall=false.
C9_HealthIsolatesVectorFailure ==
    last.op = "is_healthy"
        => /\ last.raised = "none"
           /\ (last.out["qdrant"] = "raised" /\ client["minio"] = "live"
                 /\ client["postgres"] # "none" /\ up["postgres"])
                => last.health = [minio |-> TRUE, qdrant |-> FALSE,
                                  postgres |-> TRUE, overall |-> FALSE]

\* C10: in every result of is_healthy, overall is the conjunction of the three
\* flags of that result, and each flag is what this call's check of that
\* adapter answered.
C10_OverallIsConjunction ==
    last.op = "is_healthy"
        => /\ last.health.overall =
                (last.health.minio /\ last.health.qdrant /\ last.health.postgres)
           /\ \A b \in Backends : last.health[b] = (last.out[b] = "ok")

C10_Witness ==
    /\ last.op = "is_healthy"
    /\ last.health.minio /\ ~last.health.qdrant /\ last.health.postgres
    /\ ~last.health.overall

\* An item is well-formed when it has a vector, a document_id and a
\* non-empty chunk_content.
WellFormed(item) == item.vector /\ item.document_id # 0 /\ item.chunk_content

Malformed(batch) == {k \in 1..Len(batch) : ~WellFormed(batch[k])}

\* The items of the batch that name an id name different ids.
DistinctIds(batch) ==
    \A j, k \in 1..Len(batch) : (j # k /\ batch[j].id # 0) => batch[j].id # batch[k].id

\* The k-th well-formed item of the batch is the n-th point sent, n = Rank(batch, k).
Rank(batch, k) == Cardinality({j \in 1..k : WellFormed(batch[j])})

C12_SuccessOnlyIfNoItemFailed ==
    (last.op \in ChunkWriteOps /\ last.raised = "none")
        => LET failed == Malformed(last.batch) # {}
                            \/ last.result.points_processed < Len(last.batch)
           IN  /\ (last.result.status = "success" => ~failed)
               /\ (ChunkResponse(last).status = "success" => ~failed)
               /\ (failed => ChunkResponse(last).status = "partial_failure")

\* The payload equals every structured filter value the caller supplied.
SatisfiesFilters(payload, filters) ==
    /\ (filters.document_id = 0 \/ payload.document_id = filters.document_id)
    /\ (filters.page = NoPage \/ payload.page = filters.page)

\* C19: every chunk get_chunks returns has a payload that equals each
\* structured filter value supplied, with a query vector and without one.
C19_SearchHonoursFilters ==
    (last.op = "get_chunks" /\ last.raised = "none")
        => \A id \in last.hits :
              SatisfiesFilters(pointStore[last.collection][id], last.filters)

\* C20: after delete_document(d) returned status "success", no collection of
\* the vector store holds a point whose document_id is d.
C20_DeleteRemovesAllChunks ==
    (last.op = "delete_document" /\ last.status = "success")
        => \A c \in Collections, i \in PointIds : pointStore[c][i].document_id # last.doc

C14_SecondSweepIsNoOp ==
    (last.op = "expire_old_sessions" /\ last.raised = "none" /\ last.in_a_row)
        => /\ last.expired_count = 0
           /\ sessions = last.before

C14_Witness ==
    /\ last.op = "expire_old_sessions" /\ last.raised = "none" /\ last.in_a_row
    /\ \E s \in SessionIds : sessions[s].status = "expired" /\ sessions[s].expires_at < now
    /\ \E s \in SessionIds : sessions[s].status = "active"
    /\ last.expired_count = 0

\* C15: get_session of a stored session returns the row with its stored
\* status and the route answers 200, also when its expires_at is behind the
\* clock and no sweep has marked it.
C15_ReadsDoNotExpire ==
    (last.op = "get_session" /\ last.raised = "none"
        /\ sessions[last.session_id] # NoSession)
        => /\ last.returned = sessions[last.session_id]
           /\ last.returned = last.before[last.session_id]
           /\ last.http = 200

C15_Witness ==
    /\ last.op = "get_session" /\ last.raised = "none"
    /\ last.returned.status = "active"
    /\ last.returned.expires_at < now
    /\ last.http = 200

\* C16: when a row of a multi-row PostgresDB.insert fails (it is listed in
\* failed_inserts, or the whole call reports an error), no row of that batch
\* is stored: the table is what it was before the call.
C16_BatchInsertIsAtomic ==
    (last.op = "insert" /\ (last.failed_inserts # <<>> \/ last.error # ""))
        => rows = last.before

\* C17: get_document / download_document answer not-found only when the
\* backend was reachable and holds no entry for the id; a backend that cannot
\* be reached is reported as a connection error instead.
C17_NotFoundOnlyWhenReachable ==
    (last.op \in {"get_document", "download_document"} /\ last.returned = "not_found")
        => /\ last.out[OpBackend[last.op]] = "ok"
           /\ last.doc \notin Holds(OpBackend[last.op])

\* C18: delete_document for an id none of the three backends holds does not
\* raise, every entry of its per-backend map says not-found / no-op, and its
\* status is not the "success" of a real deletion.
C18_DeleteOfMissingIdSaysSo ==
    (/\ last.op = "delete_document" /\ last.ready
     /\ last.found = {}
     /\ \A b \in Backends : last.out[b] = "ok" \/ last.results[b] = "not_found")
        => /\ last.raised = "none"
           /\ \A b \in Backends : last.results[b] \notin {"deleted"}
           /\ last.status # "success"

\* C21: on a coordinator that initialize made ready, no later call (a health
\* check included) replaces or re-creates an adapter connection.
C21_HandlesOnlyReadAfterInit ==
    (last.op \notin {"none", "initialize"} /\ last.ready) => ~last.reconnected

\* C22: get_document(document_id) returns nothing or the row whose
\* document_id is the requested one, never the row of another document.
C22_GetDocumentReturnsRequestedRow ==
    (last.op = "get_document" /\ last.raised = "none")
        => last.returned \in {0, last.doc}

C25_MissingEntityIs404 ==
    /\ (/\ last.op \in {"finalize_session", "delete_legacy_session"}
        /\ last.raised = "none"
        /\ last.before[last.session_id] = NoSession)
          => last.http = 404
    /\ (/\ last.op = "get_document" /\ last.raised = "none"
        /\ last.out["postgres"] = "ok" /\ up["minio"] /\ client["minio"] = "live"
        /\ last.doc \notin rows /\ last.doc \notin blobs)
          => GetDocumentMetadataResponse(last, client["minio"],
                 MinioGetDocumentInfo(client["minio"], up["minio"], last.doc, blobs)) = 404

\* C26: whenever finalize_session answers with status "finalized" for a
\* session, the stored status of that session is "finalized".
C26_FinalizedAnswerMeansStored ==
    (last.op = "finalize_session" /\ last.response_status = "finalized")
        => sessions[last.session_id].status = "finalized"

\* C27: whenever is_healthy runs on a coordinator that is not ready (never
\* initialized, after a failed initialize, after cleanup), the result has
\* overall = false.
C27_NotReadyIsUnhealthy ==
    (last.op = "is_healthy" /\ ~last.ready) => ~last.health.overall

\* C28: an update_chunks request that carries only metadata for one existing
\* chunk is answered with status "success" and counts that chunk in
\* chunks_affected.
C28_MetadataOnlyUpdateCounts ==
    (/\ last.op = "update_chunks" /\ last.raised = "none"
     /\ last.collection = DefaultCollectionName
     /\ Len(last.batch) = 1 /\ last.batch[1] \in MetadataOnlyUpdates
     /\ pointStore[last.collection][last.batch[1].id] # NoPoint)
        => /\ ChunkResponse(last).status = "success"
           /\ ChunkResponse(last).chunks_processed >= 1

\* C29: the delete_chunks route called with an empty list of chunk ids on a
\* ready coordinator answers 200 with status "success" and 0 chunks
\* affected.
C29_EmptyDeleteIsNoOp ==
    (/\ last.op = "delete_chunks" /\ last.ready /\ client["qdrant"] # "none"
     /\ last.collection = DefaultCollectionName
     /\ last.doc = 0 /\ last.ids = {})
        => DeleteChunksResponse(last) = [http |-> 200, status |-> "success", chunks_affected |-> 0]

\* C30: the detailed health endpoint of a started application answers
\* "healthy" exactly when the three backends of the coordinator that
\* initialize made ready are live.
C30_DetailedHealthIsTheCoordinators ==
    (last.op = "detailed_health_check" /\ last.ready)
        => (last.status = "healthy" <=> IsHealthyOf(client, up).overall)

====
